---- MODULE Spec2Model ----
(***************************************************************************)
(* Model of movie_recommendation_system.py: the query loop of main() and   *)
(* get_recommendations() over a user-item matrix that is built once and    *)
(* never mutated.                                                          *)
(*                                                                         *)
(* Numbers.  Ratings are naturals.  A cosine similarity dot/(|a|*|t|) is   *)
(* kept exactly as the pair [num |-> dot, den2 |-> |a|^2 * |t|^2] and two  *)
(* similarities are compared by cross-multiplying the squares; a mean is   *)
(* kept as [sum, n].  The program computes in doubles.  Means of small     *)
(* integers over the same number of rows are equal as doubles when they    *)
(* are equal exactly.  Two similarities to the same target that are equal  *)
(* exactly are the same double when they are computed from the same        *)
(* normalised cells (SameDouble); otherwise they may differ in the last    *)
(* bit or not.  Whether they do, and which is then the greater, is fixed   *)
(* for a run of the program and is modelled by build.rounding, a level     *)
(* for each row chosen when the matrix is built: equal levels for equal    *)
(* doubles.                                                                *)
(*                                                                         *)
(* Sorting.  Series.sort_values(ascending=False) leaves the kind to its    *)
(* default 'quicksort', and what that does to equal keys depends on the    *)
(* installed libraries (build):                                            *)
(*  - pandas from 1.2 on (nargsort) reverses the values, sorts ascending   *)
(*    with numpy, and reverses the result; older pandas sorts ascending    *)
(*    and reverses once;                                                   *)
(*  - numpy's scalar quicksort sorts a range of at most 17 entries by      *)
(*    insertion, which keeps equal keys in their order, and partitions a   *)
(*    longer range around the median of three, which does not (its switch  *)
(*    to heapsort after 2*floor(log2(n)) nested partitions is out of reach *)
(*    for the series of this model);                                       *)
(*  - numpy's vector kernels (x86-simd-sort), taken where the CPU has      *)
(*    them, keep equal keys in order on no length; the order they leave    *)
(*    is modelled as a ranking of the positions of each axis, fixed for    *)
(*    the build (with them the pandas version adds no further orders).     *)
(* Every ranking and every assignment of levels is allowed on at most      *)
(* MaxPermuted entries, three of them on more.                             *)
(*                                                                         *)
(* Characters.  A line is a sequence of Unicode code points, as a Python   *)
(* str is: "exit" is <<101, 120, 105, 116>>.                               *)
(***************************************************************************)
EXTENDS Integers, Sequences, FiniteSets

VARIABLES
    user_item_matrix,        \* main: [index, columns, data], read-only
    build,                   \* the installed pandas and numpy, and the rounding
    pc,                      \* "start", "prompt" (in the loop), "done"
    eof,                     \* stdin has ended for good (a pipe or file)
    event,                   \* what input() gave last: "start", "line", "eof"
    user_id_input,           \* the line read last (sequence of code points)
    target_user_id,          \* <<>> or <<int(user_id_input)>>
    invoked,                 \* get_recommendations was called for that line
    report,                  \* which message the last iteration printed
    similarity_computed,     \* cosine_similarity ran in the last call
    similar_users,           \* the neighbour series printed by the last call
    top_10_recommendations   \* the recommendation lines printed by it

vars == <<user_item_matrix, build, pc, eof, event, user_id_input,
          target_user_id, invoked, report, similarity_computed,
          similar_users, top_10_recommendations>>

----------------------------------------------------------------------------
(* Bounds of the model and constants of the program *)

MaxRating == 1
MaxPermuted == 4
WideMovies == 19
BigUsers == 12
BigMovies == 12
TopSimilar == 10
TopMovies == 10
IntMaxStrDigits == 4300
SmallQuicksort == 16

SmallRatings == 0..MaxRating
BigSeeds == {1, 2, 3}

Titles ==
    <<"A", "B", "C", "D", "E", "F", "G", "H", "I", "J", "K", "L", "M",
      "N", "O", "P", "Q", "R", "S", "T", "U", "V", "W", "X", "Y", "Z">>

SmallTitles == <<"A", "B">>
SmallUsers == <<1, 2, 3>>

Min(a, b) == IF a <= b THEN a ELSE b

Range(s) == {s[i] : i \in 1..Len(s)}

RECURSIVE SumSeq(_)
SumSeq(s) == IF s = <<>> THEN 0 ELSE Head(s) + SumSeq(Tail(s))

----------------------------------------------------------------------------
(* Text: str.lower() and int() on the line typed at the prompt *)

\* str.lower(), one character to one character.  <<first, last, step,
\* delta>>: every step-th code point from first to last lower-cases to
\* itself plus delta.  No code point is in two runs.
LowerRuns ==
    {
      <<65, 90, 1, 32>>, <<192, 214, 1, 32>>, <<216, 222, 1, 32>>,
      <<256, 302, 2, 1>>, <<306, 310, 2, 1>>, <<313, 327, 2, 1>>,
      <<330, 374, 2, 1>>, <<376, 376, 1, -121>>, <<377, 381, 2, 1>>,
      <<385, 385, 1, 210>>, <<386, 388, 2, 1>>, <<390, 390, 1, 206>>,
      <<391, 391, 1, 1>>, <<393, 394, 1, 205>>, <<395, 395, 1, 1>>,
      <<398, 398, 1, 79>>, <<399, 399, 1, 202>>, <<400, 400, 1, 203>>,
      <<401, 401, 1, 1>>, <<403, 403, 1, 205>>, <<404, 404, 1, 207>>,
      <<406, 406, 1, 211>>, <<407, 407, 1, 209>>, <<408, 408, 1, 1>>,
      <<412, 412, 1, 211>>, <<413, 413, 1, 213>>,
      <<415, 415, 1, 214>>, <<416, 420, 2, 1>>, <<422, 422, 1, 218>>,
      <<423, 423, 1, 1>>, <<425, 425, 1, 218>>, <<428, 428, 1, 1>>,
      <<430, 430, 1, 218>>, <<431, 431, 1, 1>>, <<433, 434, 1, 217>>,
      <<435, 437, 2, 1>>, <<439, 439, 1, 219>>, <<440, 440, 1, 1>>,
      <<444, 444, 1, 1>>, <<452, 452, 1, 2>>, <<453, 453, 1, 1>>,
      <<455, 455, 1, 2>>, <<456, 456, 1, 1>>, <<458, 458, 1, 2>>,
      <<459, 475, 2, 1>>, <<478, 494, 2, 1>>, <<497, 497, 1, 2>>,
      <<498, 500, 2, 1>>, <<502, 502, 1, -97>>, <<503, 503, 1, -56>>,
      <<504, 542, 2, 1>>, <<544, 544, 1, -130>>, <<546, 562, 2, 1>>,
      <<570, 570, 1, 10795>>, <<571, 571, 1, 1>>,
      <<573, 573, 1, -163>>, <<574, 574, 1, 10792>>,
      <<577, 577, 1, 1>>, <<579, 579, 1, -195>>, <<580, 580, 1, 69>>,
      <<581, 581, 1, 71>>, <<582, 590, 2, 1>>, <<880, 882, 2, 1>>,
      <<886, 886, 1, 1>>, <<895, 895, 1, 116>>, <<902, 902, 1, 38>>,
      <<904, 906, 1, 37>>, <<908, 908, 1, 64>>, <<910, 911, 1, 63>>,
      <<913, 929, 1, 32>>, <<931, 939, 1, 32>>, <<975, 975, 1, 8>>,
      <<984, 1006, 2, 1>>, <<1012, 1012, 1, -60>>,
      <<1015, 1015, 1, 1>>, <<1017, 1017, 1, -7>>,
      <<1018, 1018, 1, 1>>, <<1021, 1023, 1, -130>>,
      <<1024, 1039, 1, 80>>, <<1040, 1071, 1, 32>>,
      <<1120, 1152, 2, 1>>, <<1162, 1214, 2, 1>>,
      <<1216, 1216, 1, 15>>, <<1217, 1229, 2, 1>>,
      <<1232, 1326, 2, 1>>, <<1329, 1366, 1, 48>>,
      <<4256, 4293, 1, 7264>>, <<4295, 4295, 1, 7264>>,
      <<4301, 4301, 1, 7264>>, <<5024, 5103, 1, 38864>>,
      <<5104, 5109, 1, 8>>, <<7312, 7354, 1, -3008>>,
      <<7357, 7359, 1, -3008>>, <<7680, 7828, 2, 1>>,
      <<7838, 7838, 1, -7615>>, <<7840, 7934, 2, 1>>,
      <<7944, 7951, 1, -8>>, <<7960, 7965, 1, -8>>,
      <<7976, 7983, 1, -8>>, <<7992, 7999, 1, -8>>,
      <<8008, 8013, 1, -8>>, <<8025, 8031, 2, -8>>,
      <<8040, 8047, 1, -8>>, <<8072, 8079, 1, -8>>,
      <<8088, 8095, 1, -8>>, <<8104, 8111, 1, -8>>,
      <<8120, 8121, 1, -8>>, <<8122, 8123, 1, -74>>,
      <<8124, 8124, 1, -9>>, <<8136, 8139, 1, -86>>,
      <<8140, 8140, 1, -9>>, <<8152, 8153, 1, -8>>,
      <<8154, 8155, 1, -100>>, <<8168, 8169, 1, -8>>,
      <<8170, 8171, 1, -112>>, <<8172, 8172, 1, -7>>,
      <<8184, 8185, 1, -128>>, <<8186, 8187, 1, -126>>,
      <<8188, 8188, 1, -9>>, <<8486, 8486, 1, -7517>>,
      <<8490, 8490, 1, -8383>>, <<8491, 8491, 1, -8262>>,
      <<8498, 8498, 1, 28>>, <<8544, 8559, 1, 16>>,
      <<8579, 8579, 1, 1>>, <<9398, 9423, 1, 26>>,
      <<11264, 11311, 1, 48>>, <<11360, 11360, 1, 1>>,
      <<11362, 11362, 1, -10743>>, <<11363, 11363, 1, -3814>>,
      <<11364, 11364, 1, -10727>>, <<11367, 11371, 2, 1>>,
      <<11373, 11373, 1, -10780>>, <<11374, 11374, 1, -10749>>,
      <<11375, 11375, 1, -10783>>, <<11376, 11376, 1, -10782>>,
      <<11378, 11378, 1, 1>>, <<11381, 11381, 1, 1>>,
      <<11390, 11391, 1, -10815>>, <<11392, 11490, 2, 1>>,
      <<11499, 11501, 2, 1>>, <<11506, 11506, 1, 1>>,
      <<42560, 42604, 2, 1>>, <<42624, 42650, 2, 1>>,
      <<42786, 42798, 2, 1>>, <<42802, 42862, 2, 1>>,
      <<42873, 42875, 2, 1>>, <<42877, 42877, 1, -35332>>,
      <<42878, 42886, 2, 1>>, <<42891, 42891, 1, 1>>,
      <<42893, 42893, 1, -42280>>, <<42896, 42898, 2, 1>>,
      <<42902, 42920, 2, 1>>, <<42922, 42922, 1, -42308>>,
      <<42923, 42923, 1, -42319>>, <<42924, 42924, 1, -42315>>,
      <<42925, 42925, 1, -42305>>, <<42926, 42926, 1, -42308>>,
      <<42928, 42928, 1, -42258>>, <<42929, 42929, 1, -42282>>,
      <<42930, 42930, 1, -42261>>, <<42931, 42931, 1, 928>>,
      <<42932, 42946, 2, 1>>, <<42948, 42948, 1, -48>>,
      <<42949, 42949, 1, -42307>>, <<42950, 42950, 1, -35384>>,
      <<42951, 42953, 2, 1>>, <<42960, 42960, 1, 1>>,
      <<42966, 42968, 2, 1>>, <<42997, 42997, 1, 1>>,
      <<65313, 65338, 1, 32>>, <<66560, 66599, 1, 40>>,
      <<66736, 66771, 1, 40>>, <<66928, 66964, 2, 39>>,
      <<66929, 66937, 2, 39>>, <<66941, 66953, 2, 39>>,
      <<66957, 66961, 2, 39>>, <<66965, 66965, 1, 39>>,
      <<68736, 68786, 1, 64>>, <<71840, 71871, 1, 32>>,
      <<93760, 93791, 1, 32>>, <<125184, 125217, 1, 34>>
    }

InRun(c, r) == r[1] <= c /\ c <= r[2] /\ (c - r[1]) % r[3] = 0

\* str.lower() of one character standing alone: a sequence, as U+0130
\* (304) gives two characters
LowerChar(c) ==
    IF c = 304 THEN <<105, 775>>
    ELSE IF \E r \in LowerRuns : InRun(c, r)
         THEN <<c + (CHOOSE r \in LowerRuns : InRun(c, r))[4]>>
    ELSE <<c>>

\* the characters with a letter case, as ranges <<first, last>>
CasedRanges ==
    {
      <<65, 90>>, <<97, 122>>, <<170, 170>>, <<181, 181>>,
      <<186, 186>>, <<192, 214>>, <<216, 246>>, <<248, 442>>,
      <<444, 447>>, <<452, 659>>, <<661, 696>>, <<704, 705>>,
      <<736, 740>>, <<837, 837>>, <<880, 883>>, <<886, 887>>,
      <<890, 893>>, <<895, 895>>, <<902, 902>>, <<904, 906>>,
      <<908, 908>>, <<910, 929>>, <<931, 1013>>, <<1015, 1153>>,
      <<1162, 1327>>, <<1329, 1366>>, <<1376, 1416>>, <<4256, 4293>>,
      <<4295, 4295>>, <<4301, 4301>>, <<4304, 4346>>, <<4349, 4351>>,
      <<5024, 5109>>, <<5112, 5117>>, <<7296, 7304>>, <<7312, 7354>>,
      <<7357, 7359>>, <<7424, 7615>>, <<7680, 7957>>, <<7960, 7965>>,
      <<7968, 8005>>, <<8008, 8013>>, <<8016, 8023>>, <<8025, 8025>>,
      <<8027, 8027>>, <<8029, 8029>>, <<8031, 8061>>, <<8064, 8116>>,
      <<8118, 8124>>, <<8126, 8126>>, <<8130, 8132>>, <<8134, 8140>>,
      <<8144, 8147>>, <<8150, 8155>>, <<8160, 8172>>, <<8178, 8180>>,
      <<8182, 8188>>, <<8305, 8305>>, <<8319, 8319>>, <<8336, 8348>>,
      <<8450, 8450>>, <<8455, 8455>>, <<8458, 8467>>, <<8469, 8469>>,
      <<8473, 8477>>, <<8484, 8484>>, <<8486, 8486>>, <<8488, 8488>>,
      <<8490, 8493>>, <<8495, 8500>>, <<8505, 8505>>, <<8508, 8511>>,
      <<8517, 8521>>, <<8526, 8526>>, <<8544, 8575>>, <<8579, 8580>>,
      <<9398, 9449>>, <<11264, 11492>>, <<11499, 11502>>,
      <<11506, 11507>>, <<11520, 11557>>, <<11559, 11559>>,
      <<11565, 11565>>, <<42560, 42605>>, <<42624, 42653>>,
      <<42786, 42887>>, <<42891, 42894>>, <<42896, 42954>>,
      <<42960, 42961>>, <<42963, 42963>>, <<42965, 42969>>,
      <<42997, 42998>>, <<43000, 43002>>, <<43824, 43866>>,
      <<43868, 43880>>, <<43888, 43967>>, <<64256, 64262>>,
      <<64275, 64279>>, <<65313, 65338>>, <<65345, 65370>>,
      <<66560, 66639>>, <<66736, 66771>>, <<66776, 66811>>,
      <<66928, 66938>>, <<66940, 66954>>, <<66956, 66962>>,
      <<66964, 66965>>, <<66967, 66977>>, <<66979, 66993>>,
      <<66995, 67001>>, <<67003, 67004>>, <<67456, 67456>>,
      <<67459, 67461>>, <<67463, 67504>>, <<67506, 67514>>,
      <<68736, 68786>>, <<68800, 68850>>, <<71840, 71903>>,
      <<93760, 93823>>, <<119808, 119892>>, <<119894, 119964>>,
      <<119966, 119967>>, <<119970, 119970>>, <<119973, 119974>>,
      <<119977, 119980>>, <<119982, 119993>>, <<119995, 119995>>,
      <<119997, 120003>>, <<120005, 120069>>, <<120071, 120074>>,
      <<120077, 120084>>, <<120086, 120092>>, <<120094, 120121>>,
      <<120123, 120126>>, <<120128, 120132>>, <<120134, 120134>>,
      <<120138, 120144>>, <<120146, 120485>>, <<120488, 120512>>,
      <<120514, 120538>>, <<120540, 120570>>, <<120572, 120596>>,
      <<120598, 120628>>, <<120630, 120654>>, <<120656, 120686>>,
      <<120688, 120712>>, <<120714, 120744>>, <<120746, 120770>>,
      <<120772, 120779>>, <<122624, 122633>>, <<122635, 122654>>,
      <<125184, 125251>>, <<127280, 127305>>, <<127312, 127337>>,
      <<127344, 127369>>
    }

\* the characters that are skipped when looking for the cased letter next
\* to a capital sigma, as ranges <<first, last>>
CaseIgnorableRanges ==
    {
      <<39, 39>>, <<46, 46>>, <<58, 58>>, <<94, 94>>, <<96, 96>>,
      <<168, 168>>, <<173, 173>>, <<175, 175>>, <<180, 180>>,
      <<183, 184>>, <<688, 879>>, <<884, 885>>, <<890, 890>>,
      <<900, 901>>, <<903, 903>>, <<1155, 1161>>, <<1369, 1369>>,
      <<1375, 1375>>, <<1425, 1469>>, <<1471, 1471>>, <<1473, 1474>>,
      <<1476, 1477>>, <<1479, 1479>>, <<1524, 1524>>, <<1536, 1541>>,
      <<1552, 1562>>, <<1564, 1564>>, <<1600, 1600>>, <<1611, 1631>>,
      <<1648, 1648>>, <<1750, 1757>>, <<1759, 1768>>, <<1770, 1773>>,
      <<1807, 1807>>, <<1809, 1809>>, <<1840, 1866>>, <<1958, 1968>>,
      <<2027, 2037>>, <<2042, 2042>>, <<2045, 2045>>, <<2070, 2093>>,
      <<2137, 2139>>, <<2184, 2184>>, <<2192, 2193>>, <<2200, 2207>>,
      <<2249, 2306>>, <<2362, 2362>>, <<2364, 2364>>, <<2369, 2376>>,
      <<2381, 2381>>, <<2385, 2391>>, <<2402, 2403>>, <<2417, 2417>>,
      <<2433, 2433>>, <<2492, 2492>>, <<2497, 2500>>, <<2509, 2509>>,
      <<2530, 2531>>, <<2558, 2558>>, <<2561, 2562>>, <<2620, 2620>>,
      <<2625, 2626>>, <<2631, 2632>>, <<2635, 2637>>, <<2641, 2641>>,
      <<2672, 2673>>, <<2677, 2677>>, <<2689, 2690>>, <<2748, 2748>>,
      <<2753, 2757>>, <<2759, 2760>>, <<2765, 2765>>, <<2786, 2787>>,
      <<2810, 2815>>, <<2817, 2817>>, <<2876, 2876>>, <<2879, 2879>>,
      <<2881, 2884>>, <<2893, 2893>>, <<2901, 2902>>, <<2914, 2915>>,
      <<2946, 2946>>, <<3008, 3008>>, <<3021, 3021>>, <<3072, 3072>>,
      <<3076, 3076>>, <<3132, 3132>>, <<3134, 3136>>, <<3142, 3144>>,
      <<3146, 3149>>, <<3157, 3158>>, <<3170, 3171>>, <<3201, 3201>>,
      <<3260, 3260>>, <<3263, 3263>>, <<3270, 3270>>, <<3276, 3277>>,
      <<3298, 3299>>, <<3328, 3329>>, <<3387, 3388>>, <<3393, 3396>>,
      <<3405, 3405>>, <<3426, 3427>>, <<3457, 3457>>, <<3530, 3530>>,
      <<3538, 3540>>, <<3542, 3542>>, <<3633, 3633>>, <<3636, 3642>>,
      <<3654, 3662>>, <<3761, 3761>>, <<3764, 3772>>, <<3782, 3782>>,
      <<3784, 3789>>, <<3864, 3865>>, <<3893, 3893>>, <<3895, 3895>>,
      <<3897, 3897>>, <<3953, 3966>>, <<3968, 3972>>, <<3974, 3975>>,
      <<3981, 3991>>, <<3993, 4028>>, <<4038, 4038>>, <<4141, 4144>>,
      <<4146, 4151>>, <<4153, 4154>>, <<4157, 4158>>, <<4184, 4185>>,
      <<4190, 4192>>, <<4209, 4212>>, <<4226, 4226>>, <<4229, 4230>>,
      <<4237, 4237>>, <<4253, 4253>>, <<4348, 4348>>, <<4957, 4959>>,
      <<5906, 5908>>, <<5938, 5939>>, <<5970, 5971>>, <<6002, 6003>>,
      <<6068, 6069>>, <<6071, 6077>>, <<6086, 6086>>, <<6089, 6099>>,
      <<6103, 6103>>, <<6109, 6109>>, <<6155, 6159>>, <<6211, 6211>>,
      <<6277, 6278>>, <<6313, 6313>>, <<6432, 6434>>, <<6439, 6440>>,
      <<6450, 6450>>, <<6457, 6459>>, <<6679, 6680>>, <<6683, 6683>>,
      <<6742, 6742>>, <<6744, 6750>>, <<6752, 6752>>, <<6754, 6754>>,
      <<6757, 6764>>, <<6771, 6780>>, <<6783, 6783>>, <<6823, 6823>>,
      <<6832, 6862>>, <<6912, 6915>>, <<6964, 6964>>, <<6966, 6970>>,
      <<6972, 6972>>, <<6978, 6978>>, <<7019, 7027>>, <<7040, 7041>>,
      <<7074, 7077>>, <<7080, 7081>>, <<7083, 7085>>, <<7142, 7142>>,
      <<7144, 7145>>, <<7149, 7149>>, <<7151, 7153>>, <<7212, 7219>>,
      <<7222, 7223>>, <<7288, 7293>>, <<7376, 7378>>, <<7380, 7392>>,
      <<7394, 7400>>, <<7405, 7405>>, <<7412, 7412>>, <<7416, 7417>>,
      <<7468, 7530>>, <<7544, 7544>>, <<7579, 7679>>, <<8125, 8125>>,
      <<8127, 8129>>, <<8141, 8143>>, <<8157, 8159>>, <<8173, 8175>>,
      <<8189, 8190>>, <<8203, 8207>>, <<8216, 8217>>, <<8228, 8228>>,
      <<8231, 8231>>, <<8234, 8238>>, <<8288, 8292>>, <<8294, 8303>>,
      <<8305, 8305>>, <<8319, 8319>>, <<8336, 8348>>, <<8400, 8432>>,
      <<11388, 11389>>, <<11503, 11505>>, <<11631, 11631>>,
      <<11647, 11647>>, <<11744, 11775>>, <<11823, 11823>>,
      <<12293, 12293>>, <<12330, 12333>>, <<12337, 12341>>,
      <<12347, 12347>>, <<12441, 12446>>, <<12540, 12542>>,
      <<40981, 40981>>, <<42232, 42237>>, <<42508, 42508>>,
      <<42607, 42610>>, <<42612, 42621>>, <<42623, 42623>>,
      <<42652, 42655>>, <<42736, 42737>>, <<42752, 42785>>,
      <<42864, 42864>>, <<42888, 42890>>, <<42994, 42996>>,
      <<43000, 43001>>, <<43010, 43010>>, <<43014, 43014>>,
      <<43019, 43019>>, <<43045, 43046>>, <<43052, 43052>>,
      <<43204, 43205>>, <<43232, 43249>>, <<43263, 43263>>,
      <<43302, 43309>>, <<43335, 43345>>, <<43392, 43394>>,
      <<43443, 43443>>, <<43446, 43449>>, <<43452, 43453>>,
      <<43471, 43471>>, <<43493, 43494>>, <<43561, 43566>>,
      <<43569, 43570>>, <<43573, 43574>>, <<43587, 43587>>,
      <<43596, 43596>>, <<43632, 43632>>, <<43644, 43644>>,
      <<43696, 43696>>, <<43698, 43700>>, <<43703, 43704>>,
      <<43710, 43711>>, <<43713, 43713>>, <<43741, 43741>>,
      <<43756, 43757>>, <<43763, 43764>>, <<43766, 43766>>,
      <<43867, 43871>>, <<43881, 43883>>, <<44005, 44005>>,
      <<44008, 44008>>, <<44013, 44013>>, <<64286, 64286>>,
      <<64434, 64450>>, <<65024, 65039>>, <<65043, 65043>>,
      <<65056, 65071>>, <<65106, 65106>>, <<65109, 65109>>,
      <<65279, 65279>>, <<65287, 65287>>, <<65294, 65294>>,
      <<65306, 65306>>, <<65342, 65342>>, <<65344, 65344>>,
      <<65392, 65392>>, <<65438, 65439>>, <<65507, 65507>>,
      <<65529, 65531>>, <<66045, 66045>>, <<66272, 66272>>,
      <<66422, 66426>>, <<67456, 67461>>, <<67463, 67504>>,
      <<67506, 67514>>, <<68097, 68099>>, <<68101, 68102>>,
      <<68108, 68111>>, <<68152, 68154>>, <<68159, 68159>>,
      <<68325, 68326>>, <<68900, 68903>>, <<69291, 69292>>,
      <<69446, 69456>>, <<69506, 69509>>, <<69633, 69633>>,
      <<69688, 69702>>, <<69744, 69744>>, <<69747, 69748>>,
      <<69759, 69761>>, <<69811, 69814>>, <<69817, 69818>>,
      <<69821, 69821>>, <<69826, 69826>>, <<69837, 69837>>,
      <<69888, 69890>>, <<69927, 69931>>, <<69933, 69940>>,
      <<70003, 70003>>, <<70016, 70017>>, <<70070, 70078>>,
      <<70089, 70092>>, <<70095, 70095>>, <<70191, 70193>>,
      <<70196, 70196>>, <<70198, 70199>>, <<70206, 70206>>,
      <<70367, 70367>>, <<70371, 70378>>, <<70400, 70401>>,
      <<70459, 70460>>, <<70464, 70464>>, <<70502, 70508>>,
      <<70512, 70516>>, <<70712, 70719>>, <<70722, 70724>>,
      <<70726, 70726>>, <<70750, 70750>>, <<70835, 70840>>,
      <<70842, 70842>>, <<70847, 70848>>, <<70850, 70851>>,
      <<71090, 71093>>, <<71100, 71101>>, <<71103, 71104>>,
      <<71132, 71133>>, <<71219, 71226>>, <<71229, 71229>>,
      <<71231, 71232>>, <<71339, 71339>>, <<71341, 71341>>,
      <<71344, 71349>>, <<71351, 71351>>, <<71453, 71455>>,
      <<71458, 71461>>, <<71463, 71467>>, <<71727, 71735>>,
      <<71737, 71738>>, <<71995, 71996>>, <<71998, 71998>>,
      <<72003, 72003>>, <<72148, 72151>>, <<72154, 72155>>,
      <<72160, 72160>>, <<72193, 72202>>, <<72243, 72248>>,
      <<72251, 72254>>, <<72263, 72263>>, <<72273, 72278>>,
      <<72281, 72283>>, <<72330, 72342>>, <<72344, 72345>>,
      <<72752, 72758>>, <<72760, 72765>>, <<72767, 72767>>,
      <<72850, 72871>>, <<72874, 72880>>, <<72882, 72883>>,
      <<72885, 72886>>, <<73009, 73014>>, <<73018, 73018>>,
      <<73020, 73021>>, <<73023, 73029>>, <<73031, 73031>>,
      <<73104, 73105>>, <<73109, 73109>>, <<73111, 73111>>,
      <<73459, 73460>>, <<78896, 78904>>, <<92912, 92916>>,
      <<92976, 92982>>, <<92992, 92995>>, <<94031, 94031>>,
      <<94095, 94111>>, <<94176, 94177>>, <<94179, 94180>>,
      <<110576, 110579>>, <<110581, 110587>>, <<110589, 110590>>,
      <<113821, 113822>>, <<113824, 113827>>, <<118528, 118573>>,
      <<118576, 118598>>, <<119143, 119145>>, <<119155, 119170>>,
      <<119173, 119179>>, <<119210, 119213>>, <<119362, 119364>>,
      <<121344, 121398>>, <<121403, 121452>>, <<121461, 121461>>,
      <<121476, 121476>>, <<121499, 121503>>, <<121505, 121519>>,
      <<122880, 122886>>, <<122888, 122904>>, <<122907, 122913>>,
      <<122915, 122916>>, <<122918, 122922>>, <<123184, 123197>>,
      <<123566, 123566>>, <<123628, 123631>>, <<125136, 125142>>,
      <<125252, 125259>>, <<127995, 127999>>, <<917505, 917505>>,
      <<917536, 917631>>, <<917760, 917999>>
    }

IsCased(c) == \E r \in CasedRanges : r[1] <= c /\ c <= r[2]

IsCaseIgnorable(c) == \E r \in CaseIgnorableRanges : r[1] <= c /\ c <= r[2]

\* the capital sigma at position i ends a word: a cased letter before it
\* and none after it, case-ignorable characters skipped on both sides
FinalSigma(line, i) ==
    LET before == {j \in 1..(i - 1) : ~IsCaseIgnorable(line[j])}
        after == {j \in (i + 1)..Len(line) : ~IsCaseIgnorable(line[j])}
    IN  /\ before # {}
        /\ IsCased(line[CHOOSE j \in before : \A k \in before : k <= j])
        /\ \/ after = {}
           \/ ~IsCased(line[CHOOSE j \in after : \A k \in after : j <= k])

\* str.lower() of the character at position i: capital sigma (931) gives
\* final sigma (962) at the end of a word, small sigma (963) elsewhere
LowerAt(line, i) ==
    IF line[i] = 931 /\ FinalSigma(line, i) THEN <<962>>
    ELSE LowerChar(line[i])

RECURSIVE LowerFrom(_, _)
LowerFrom(line, i) ==
    IF i > Len(line) THEN <<>>
    ELSE LowerAt(line, i) \o LowerFrom(line, i + 1)

Lower(line) == LowerFrom(line, 1)

\* the characters int() skips around the number: the six of ASCII and
\* the Unicode spaces above it (28..31 are not among them)
Whitespace ==
    {
      9, 10, 11, 12, 13, 32, 133, 160, 5760, 8192, 8193, 8194, 8195,
      8196, 8197, 8198, 8199, 8200, 8201, 8202, 8232, 8233, 8239,
      8287, 12288
    }

\* the digit zero of every run of decimal digits (category Nd): int()
\* reads the ten code points from each as the digits 0 to 9
DigitZeros ==
    {
      48, 1632, 1776, 1984, 2406, 2534, 2662, 2790, 2918, 3046, 3174,
      3302, 3430, 3558, 3664, 3792, 3872, 4160, 4240, 6112, 6160,
      6470, 6608, 6784, 6800, 6992, 7088, 7232, 7248, 42528, 43216,
      43264, 43472, 43504, 43600, 44016, 65296, 66720, 68912, 69734,
      69872, 69942, 70096, 70384, 70736, 70864, 71248, 71360, 71472,
      71904, 72016, 72784, 73040, 73120, 92768, 92864, 93008, 120782,
      120792, 120802, 120812, 120822, 123200, 123632, 125264, 130032
    }

IsDigit(c) == \E z \in DigitZeros : z <= c /\ c <= z + 9

DigitValue(c) == c - (CHOOSE z \in DigitZeros : z <= c /\ c <= z + 9)

RECURSIVE Strip(_)
Strip(line) ==
    IF line = <<>> THEN line
    ELSE IF Head(line) \in Whitespace THEN Strip(Tail(line))
    ELSE IF line[Len(line)] \in Whitespace
         THEN Strip(SubSeq(line, 1, Len(line) - 1))
    ELSE line

\* digits with single underscores between them
IsDigitString(ds) ==
    /\ ds # <<>>
    /\ \A i \in 1..Len(ds) :
          \/ IsDigit(ds[i])
          \/ /\ ds[i] = 95
             /\ 1 < i /\ i < Len(ds)
             /\ IsDigit(ds[i - 1]) /\ IsDigit(ds[i + 1])

OnlyDigits(ds) == SelectSeq(ds, IsDigit)

RECURSIVE DecimalValue(_)
DecimalValue(ds) ==
    IF ds = <<>> THEN 0
    ELSE 10 * DecimalValue(SubSeq(ds, 1, Len(ds) - 1)) + DigitValue(ds[Len(ds)])

\* as ParseInt below, but a line of whitespace only reads as 0
ParseInt_emptyIsZero(line) ==
    LET s == Strip(line)
        signed == s # <<>> /\ Head(s) \in {43, 45}
        ds == IF signed THEN Tail(s) ELSE s
    IN  IF ds = <<>> \/ (IsDigitString(ds) /\ Len(OnlyDigits(ds)) <= IntMaxStrDigits)
        THEN [ok |-> TRUE,
              value |-> IF signed /\ Head(s) = 45
                        THEN 0 - DecimalValue(OnlyDigits(ds))
                        ELSE DecimalValue(OnlyDigits(ds))]
        ELSE [ok |-> FALSE, value |-> 0]

\* int(s): surrounding whitespace is dropped, one sign is allowed, then
\* decimal digits, single underscores allowed between them, at most
\* IntMaxStrDigits digits; anything else raises ValueError (ok = FALSE).
ParseInt(line) ==
    LET s == Strip(line)
        signed == s # <<>> /\ Head(s) \in {43, 45}
        ds == IF signed THEN Tail(s) ELSE s
    IN  IF IsDigitString(ds) /\ Len(OnlyDigits(ds)) <= IntMaxStrDigits
        THEN [ok |-> TRUE,
              value |-> IF signed /\ Head(s) = 45
                        THEN 0 - DecimalValue(OnlyDigits(ds))
                        ELSE DecimalValue(OnlyDigits(ds))]
        ELSE [ok |-> FALSE, value |-> 0]

\* "exit"
IsExitInput(line) == Lower(line) = <<101, 120, 105, 116>>

\* "exit", "eXiT", "ex" U+0130 "t", "EX" KELVIN SIGN "T", the empty line,
\* "1_", U+001C "3", "1", "+2", TAB "3" NBSP, "1_" DEVANAGARI ZERO,
\* ARABIC-INDIC ONE TWO, "-1"
InputLines ==
    { <<101, 120, 105, 116>>, <<101, 88, 105, 84>>, <<101, 120, 304, 116>>,
      <<69, 88, 8490, 84>>, <<>>, <<49, 95>>, <<28, 51>>,
      <<49>>, <<43, 50>>, <<9, 51, 160>>, <<49, 95, 2406>>,
      <<1633, 1634>>, <<45, 49>> }

ExitLines == {line \in InputLines : IsExitInput(line)}

\* int() succeeds; the exit test comes first in the loop
IntegerLines == {line \in InputLines \ ExitLines : ParseInt(line).ok}

ValueErrorLines == (InputLines \ ExitLines) \ IntegerLines

----------------------------------------------------------------------------
(* The user-item matrices the loop may be started on *)

Index(n) == [i \in 1..n |-> i]

\* every matrix over the first n small users, n = 1, 2, ...
SmallMatrices ==
    UNION { { [index |-> SubSeq(SmallUsers, 1, n), columns |-> SmallTitles,
               data |-> d] :
              d \in [Range(SubSeq(SmallUsers, 1, n)) ->
                        [Range(SmallTitles) -> SmallRatings]] } :
            n \in 1..Len(SmallUsers) }

\* users {1,2,3}, movies {A,B,C}: 1 rated A=5; 2 rated A=5,B=4; 3 rated C=5
ExampleMatrix ==
    [index |-> <<1, 2, 3>>,
     columns |-> <<"A", "B", "C">>,
     data |-> [u \in {1, 2, 3} |->
                 [t \in {"A", "B", "C"} |->
                    CASE u = 1 /\ t = "A" -> 5
                      [] u = 2 /\ t = "A" -> 5
                      [] u = 2 /\ t = "B" -> 4
                      [] u = 3 /\ t = "C" -> 5
                      [] OTHER -> 0]]]

\* a wide matrix: user 1 rated movie number s only; most of the others
\* rated it too, and all of them a scattered third of the other movies
BigCell(u, p, s) ==
    IF u = 1 THEN (IF p = s THEN 2 ELSE 0)
    ELSE IF p = s /\ u % 6 # 0 THEN 1 + (u % 2)
    ELSE LET v == (u * s + p * (u + 1)) % 5 IN IF v <= 2 THEN v ELSE 0

BigMatrix(s) ==
    [index |-> Index(BigUsers),
     columns |-> SubSeq(Titles, 1, BigMovies),
     data |-> [u \in 1..BigUsers |->
                 [t \in Range(SubSeq(Titles, 1, BigMovies)) |->
                    BigCell(u, CHOOSE p \in 1..BigMovies : Titles[p] = t, s)]]]

\* users 2, 3 and 4 have the same exact similarity to user 1; as doubles
\* the three need not be equal
ParallelRowsMatrix ==
    [index |-> <<1, 2, 3, 4>>,
     columns |-> <<"A", "B">>,
     data |-> <<[A |-> 1, B |-> 0], [A |-> 1, B |-> 1], [A |-> 3, B |-> 3],
                [A |-> 5, B |-> 5]>>]

\* user 1 rated the first movie only, user 2 rated every movie 1: all the
\* movies user 1 has not seen get the same score
WideMatrix ==
    [index |-> <<1, 2>>,
     columns |-> SubSeq(Titles, 1, WideMovies),
     data |-> <<[t \in Range(SubSeq(Titles, 1, WideMovies)) |->
                   IF t = Titles[1] THEN 1 ELSE 0],
                [t \in Range(SubSeq(Titles, 1, WideMovies)) |-> 1]>>]

Matrices ==
    SmallMatrices \cup {ExampleMatrix, ParallelRowsMatrix, WideMatrix}
        \cup {BigMatrix(s) : s \in BigSeeds}

\* before the files are read
NoMatrix == [index |-> <<>>, columns |-> <<>>, data |-> <<>>]

\* the rankings of n positions
Rankings(n) ==
    IF n <= MaxPermuted
    THEN {p \in [1..n -> 1..n] : \A i, j \in 1..n : i # j => p[i] # p[j]}
    ELSE {[i \in 1..n |-> i], [i \in 1..n |-> n + 1 - i],
          [i \in 1..n |-> ((i + (n \div 2)) % n) + 1]}

\* the joined table's genres column, looked up by title (first matching row)
GenreNames == <<"Action", "Comedy", "Drama">>

GenresOf(title) ==
    GenreNames[((CHOOSE p \in 1..Len(Titles) : Titles[p] = title) % 3) + 1]

----------------------------------------------------------------------------
(* sklearn cosine_similarity, one column of it *)

Dot(m, a, b) ==
    SumSeq([i \in 1..Len(m.columns) |->
               m.data[a][m.columns[i]] * m.data[b][m.columns[i]]])

\* dot / (|a| * |b|); a zero row is left as it is by the normalisation,
\* which makes its similarity to every row (itself included) 0
CosineSimilarity(m, a, b) ==
    LET aa == Dot(m, a, a)
        bb == Dot(m, b, b)
    IN  IF aa = 0 \/ bb = 0
        THEN [num |-> 0, den2 |-> 1]
        ELSE [num |-> Dot(m, a, b), den2 |-> aa * bb]

SimGreater(x, y) == x.num * x.num * y.den2 > y.num * y.num * x.den2

MeanGreater_ascending(x, y) == x.sum * y.n < y.sum * x.n

MeanGreater(x, y) == x.sum * y.n > y.sum * x.n

IsSquare(n) == \E k \in 0..n : k * k = n

\* the cells x and y of two rows, whose sums of squares are aa and bb, are
\* the same double once the rows are normalised (cell / sqrt(sum)): both
\* 0, or the same cell over the same sum, or the same ratio over sums
\* that are squares (the root is then exact and the division rounds the
\* same ratio)
SameComponent(x, aa, y, bb) ==
    \/ x = 0 /\ y = 0
    \/ /\ x * x * bb = y * y * aa
       /\ aa = bb \/ (IsSquare(aa) /\ IsSquare(bb))

\* the similarities of rows a and b to the target are the same double: the
\* same normalised cells wherever the target's cell is not 0
SameDouble(m, a, b, user_id) ==
    LET aa == Dot(m, a, a)
        bb == Dot(m, b, b)
    IN  \A i \in 1..Len(m.columns) :
            m.data[user_id][m.columns[i]] # 0 =>
                SameComponent(m.data[a][m.columns[i]], aa,
                              m.data[b][m.columns[i]], bb)

\* the row at position i has, to some target, a similarity that is equal
\* exactly to another row's and not known to be the same double
Uncertain(m, i) ==
    \E t, j \in 1..Len(m.index) :
        LET si == CosineSimilarity(m, m.index[i], m.index[t])
            sj == CosineSimilarity(m, m.index[j], m.index[t])
        IN  /\ j # i
            /\ si.num # 0
            /\ si.num * si.num * sj.den2 = sj.num * sj.num * si.den2
            /\ ~SameDouble(m, m.index[i], m.index[j], m.index[t])

\* a level for each row: 0 for the rows that are not Uncertain, and for
\* the others every assignment of levels without a gap
Roundings(m) ==
    LET n == Len(m.index)
        U == {i \in 1..n : Uncertain(m, i)}
    IN  IF Cardinality(U) <= MaxPermuted
        THEN {[i \in 1..n |-> IF i \in U THEN g[i] ELSE 0] :
                g \in {f \in [U -> 0..Cardinality(U)] :
                         \A i \in U : f[i] = 0
                                         \/ \E j \in U : f[j] = f[i] - 1}}
        ELSE {[i \in 1..n |-> 0],
              [i \in 1..n |-> IF i \in U THEN i ELSE 0],
              [i \in 1..n |-> IF i \in U THEN n + 1 - i ELSE 0]}

\* what the installed libraries may be, for matrix m
Builds(m) ==
    {[pandas |-> p, kernel |-> "scalar", rounding |-> r,
      rows |-> <<>>, columns |-> <<>>] :
        p \in {"nargsort", "argsort_reversed"}, r \in Roundings(m)}
    \cup
    {[pandas |-> "nargsort", kernel |-> "vector",
      rounding |-> [i \in 1..Len(m.index) |-> 0], rows |-> r, columns |-> c] :
        r \in Rankings(Len(m.index)), c \in Rankings(Len(m.columns))}

NoBuild ==
    [pandas |-> "nargsort", kernel |-> "scalar", rounding |-> <<>>,
     rows |-> <<>>, columns |-> <<>>]

\* the first position from j on whose row has the same double as the row
\* at position i
RECURSIVE FirstSameDouble(_, _, _, _)
FirstSameDouble(m, i, user_id, j) ==
    IF j = i \/ SameDouble(m, m.index[j], m.index[i], user_id) THEN j
    ELSE FirstSameDouble(m, i, user_id, j + 1)

\* the level of the similarity of the row at position i: none on an exact
\* 0 (and where no row has one), else the level of the first row whose
\* similarity is the same double
LastBit(m, i, user_id, sim) ==
    IF sim.num = 0 \/ \A k \in 1..Len(m.index) : build.rounding[k] = 0 THEN 0
    ELSE build.rounding[FirstSameDouble(m, i, user_id, 1)]

\* user_similarity_df[user_id]: the target's column, in index order
RECURSIVE SimilarityFrom(_, _, _)
SimilarityFrom(m, user_id, i) ==
    IF i > Len(m.index) THEN <<>>
    ELSE LET sim == CosineSimilarity(m, m.index[i], user_id)
         IN  <<[label |-> m.index[i], value |-> sim,
                bit |-> LastBit(m, i, user_id, sim), pos |-> i]>>
             \o SimilarityFrom(m, user_id, i + 1)

SimilarityColumn(m, user_id) == SimilarityFrom(m, user_id, 1)

----------------------------------------------------------------------------
(* pandas Series.sort_values(ascending=False), .drop(label), .head(n) *)

\* a < b as doubles
Less(kind, a, b) ==
    IF kind = "similarity"
    THEN \/ SimGreater(b.value, a.value)
         \/ /\ ~SimGreater(a.value, b.value)
            /\ a.bit < b.bit
    ELSE MeanGreater(b.value, a.value)

Swap(s, i, j) == [s EXCEPT ![i] = s[j], ![j] = s[i]]

RECURSIVE Reverse(_)
Reverse(s) ==
    IF s = <<>> THEN <<>> ELSE Reverse(Tail(s)) \o <<Head(s)>>

\* numpy quicksort, insertion step: the entry moves left past every entry
\* it is less than
RECURSIVE InsertEntry(_, _, _)
InsertEntry(kind, sorted, e) ==
    IF sorted # <<>> /\ Less(kind, e, sorted[Len(sorted)])
    THEN InsertEntry(kind, SubSeq(sorted, 1, Len(sorted) - 1), e)
             \o <<sorted[Len(sorted)]>>
    ELSE sorted \o <<e>>

\* the first n entries, sorted by insertion
RECURSIVE InsertionSort(_, _, _)
InsertionSort(kind, s, n) ==
    IF n = 0 THEN <<>>
    ELSE InsertEntry(kind, InsertionSort(kind, s, n - 1), s[n])

\* numpy quicksort, partition: first, middle and last entry are put in
\* order and the middle one, the pivot, goes to the last place but one
\* if (v[hi] < v[lo]) swap
SwapIfLess(kind, s, lo, hi) ==
    IF Less(kind, s[hi], s[lo]) THEN Swap(s, hi, lo) ELSE s

MedianOfThree(kind, s) ==
    Swap(SwapIfLess(kind,
                    SwapIfLess(kind,
                               SwapIfLess(kind, s, 1, 1 + ((Len(s) - 1) \div 2)),
                               1 + ((Len(s) - 1) \div 2), Len(s)),
                    1, 1 + ((Len(s) - 1) \div 2)),
         1 + ((Len(s) - 1) \div 2), Len(s) - 1)

\* do ++pi while v[pi] < vp
RECURSIVE ScanUp(_, _, _, _)
ScanUp(kind, s, pi, vp) ==
    IF Less(kind, s[pi + 1], vp) THEN ScanUp(kind, s, pi + 1, vp) ELSE pi + 1

\* do --pj while vp < v[pj]
RECURSIVE ScanDown(_, _, _, _)
ScanDown(kind, s, pj, vp) ==
    IF Less(kind, vp, s[pj - 1]) THEN ScanDown(kind, s, pj - 1, vp) ELSE pj - 1

\* the two scans and the swap, until they meet; the pivot is then swapped
\* to the meeting place pi
RECURSIVE PartitionLoop(_, _, _, _, _)
PartitionStep(kind, s, i, j, vp) ==
    IF i >= j THEN [s |-> Swap(s, i, Len(s) - 1), pi |-> i]
    ELSE PartitionLoop(kind, Swap(s, i, j), i, j, vp)

PartitionLoop(kind, s, pi, pj, vp) ==
    PartitionStep(kind, s, ScanUp(kind, s, pi, vp), ScanDown(kind, s, pj, vp),
                  vp)

\* the partition of a range whose pivot is in the last place but one
Partition(kind, s) == PartitionLoop(kind, s, 1, Len(s) - 1, s[Len(s) - 1])

\* numpy's scalar quicksort, ascending: a range with pr - pl above
\* SmallQuicksort is partitioned, a shorter one is sorted by insertion
RECURSIVE QuickSort(_, _)
SortBothSides(kind, p) ==
    QuickSort(kind, SubSeq(p.s, 1, p.pi - 1))
        \o <<p.s[p.pi]>>
        \o QuickSort(kind, SubSeq(p.s, p.pi + 1, Len(p.s)))

QuickSort(kind, s) ==
    IF Len(s) - 1 > SmallQuicksort
    THEN SortBothSides(kind, Partition(kind, MedianOfThree(kind, s)))
    ELSE InsertionSort(kind, s, Len(s))

\* the order the vector kernel leaves: by value, and equal values by the
\* build's ranking of their positions
VectorBefore(kind, a, b) ==
    \/ Less(kind, a, b)
    \/ /\ ~Less(kind, b, a)
       /\ IF kind = "similarity"
          THEN build.rows[a.pos] < build.rows[b.pos]
          ELSE build.columns[a.pos] < build.columns[b.pos]

RECURSIVE VectorInsert(_, _, _)
VectorInsert(kind, sorted, e) ==
    IF sorted # <<>> /\ VectorBefore(kind, e, sorted[Len(sorted)])
    THEN VectorInsert(kind, SubSeq(sorted, 1, Len(sorted) - 1), e)
             \o <<sorted[Len(sorted)]>>
    ELSE sorted \o <<e>>

RECURSIVE VectorSort(_, _, _)
VectorSort(kind, s, n) ==
    IF n = 0 THEN <<>>
    ELSE VectorInsert(kind, VectorSort(kind, s, n - 1), s[n])

\* numpy argsort(kind='quicksort'), ascending, with the build's kernel
ArgSort(kind, s) ==
    IF build.kernel = "scalar" THEN QuickSort(kind, s)
    ELSE VectorSort(kind, s, Len(s))

RECURSIVE WithoutBit(_)
WithoutBit(entries) ==
    IF entries = <<>> THEN <<>>
    ELSE <<[label |-> Head(entries).label, value |-> Head(entries).value]>>
         \o WithoutBit(Tail(entries))

\* descending: pandas nargsort reverses, sorts ascending and reverses;
\* older pandas sorts ascending and reverses
SortValuesDescending(series, kind) ==
    WithoutBit(Reverse(ArgSort(kind, IF build.pandas = "nargsort"
                                     THEN Reverse(series)
                                     ELSE series)))

Drop(series, label) == SelectSeq(series, LAMBDA e : e.label # label)

HeadN(series, n) == SubSeq(series, 1, Min(n, Len(series)))

SimilarUsers_headFirst(m, user_id) ==
    Drop(HeadN(SortValuesDescending(SimilarityColumn(m, user_id), "similarity"),
               TopSimilar),
         user_id)

SimilarUsers_positiveOnly(m, user_id) ==
    SelectSeq(HeadN(Drop(SortValuesDescending(SimilarityColumn(m, user_id),
                                              "similarity"),
                         user_id),
                    TopSimilar),
              LAMBDA e : e.value.num > 0)

\* line 46
SimilarUsers(m, user_id) ==
    HeadN(Drop(SortValuesDescending(SimilarityColumn(m, user_id), "similarity"),
               user_id),
          TopSimilar)

----------------------------------------------------------------------------
(* get_recommendations *)

RECURSIVE Labels(_)
Labels(series) ==
    IF series = <<>> THEN <<>>
    ELSE <<Head(series).label>> \o Labels(Tail(series))

UnseenMovies_all(m, user_id) == m.columns

\* user_item_matrix.columns[user_item_matrix.loc[user_id] == 0]
UnseenMovies(m, user_id) ==
    SelectSeq(m.columns, LAMBDA t : m.data[user_id][t] = 0)

ColumnMean_allUsers(m, neighbours, t) ==
    [sum |-> SumSeq([i \in 1..Len(m.index) |-> m.data[m.index[i]][t]]),
     n |-> Len(m.index)]

\* recommendable_movies.mean(axis=0): per unseen column, over the neighbours
ColumnMean(m, neighbours, t) ==
    [sum |-> SumSeq([i \in 1..Len(neighbours) |-> m.data[neighbours[i]][t]]),
     n |-> Len(neighbours)]

RECURSIVE MeansFrom(_, _, _, _)
MeansFrom(m, neighbours, unseen, i) ==
    IF i > Len(unseen) THEN <<>>
    ELSE <<[label |-> unseen[i],
            value |-> ColumnMean(m, neighbours, unseen[i]),
            bit |-> 0,
            pos |-> CHOOSE p \in 1..Len(m.columns) : m.columns[p] = unseen[i]]>>
         \o MeansFrom(m, neighbours, unseen, i + 1)

\* line 67
RecommendationScores(m, neighbours, unseen) ==
    SortValuesDescending(MeansFrom(m, neighbours, unseen, 1), "mean")

\* f"{score:.2f}", in hundredths: round to nearest, an exact half to even
Format2(score) ==
    LET q == (100 * score.sum) \div score.n
        r == (100 * score.sum) % score.n
    IN  IF 2 * r < score.n THEN q
        ELSE IF 2 * r > score.n THEN q + 1
        ELSE IF q % 2 = 0 THEN q ELSE q + 1

PrintedLine(e) ==
    [title |-> e.label, genres |-> GenresOf(e.label), score |-> e.value,
     shown |-> Format2(e.value)]

RECURSIVE PrintedLines(_)
PrintedLines(top) ==
    IF top = <<>> THEN <<>>
    ELSE <<PrintedLine(Head(top))>> \o PrintedLines(Tail(top))

UserInIndex(user_id, m) == user_id \in Range(m.index)

NotFoundOutcome_afterSimilarity ==
    [report |-> "UserNotFound", similarity_computed |-> TRUE,
     similar_users |-> <<>>, top_10_recommendations |-> <<>>]

NotFoundOutcome ==
    [report |-> "UserNotFound", similarity_computed |-> FALSE,
     similar_users |-> <<>>, top_10_recommendations |-> <<>>]

\* lines 48-78: from the similar users on
RecommendFrom(user_id, m, su) ==
    IF su = <<>>
    THEN [report |-> "NoSimilarUsers", similarity_computed |-> TRUE,
          similar_users |-> <<>>, top_10_recommendations |-> <<>>]
    ELSE [report |-> "Recommendations", similarity_computed |-> TRUE,
          similar_users |-> su,
          top_10_recommendations |->
              PrintedLines(HeadN(RecommendationScores(m, Labels(su),
                                                      UnseenMovies(m, user_id)),
                                 TopMovies))]

get_recommendations(user_id, m) ==
    IF ~UserInIndex(user_id, m) THEN NotFoundOutcome
    ELSE RecommendFrom(user_id, m, SimilarUsers(m, user_id))

----------------------------------------------------------------------------
(* main: the state when the while loop is entered, and its iterations *)

Init ==
    /\ user_item_matrix = NoMatrix
    /\ build = NoBuild
    /\ pc = "start"
    /\ eof = FALSE
    /\ event = "start"
    /\ user_id_input = <<>>
    /\ target_user_id = <<>>
    /\ invoked = FALSE
    /\ report = "None"
    /\ similarity_computed = FALSE
    /\ similar_users = <<>>
    /\ top_10_recommendations = <<>>

\* load_data finds no file: main returns before the loop
LoadFailed ==
    /\ pc = "start"
    /\ pc' = "done"
    /\ report' = "FileNotFound"
    /\ UNCHANGED <<user_item_matrix, build, eof, event, user_id_input,
                   target_user_id, invoked, similarity_computed, similar_users,
                   top_10_recommendations>>

\* the files are read and the matrix is built: the loop is entered
LoadAndBuild ==
    /\ pc = "start"
    /\ \E m \in Matrices :
        /\ user_item_matrix' = m
        /\ build' \in Builds(m)
    /\ pc' = "prompt"
    /\ UNCHANGED <<eof, event, user_id_input, target_user_id, invoked, report,
                   similarity_computed, similar_users, top_10_recommendations>>

\* input() returns a line that lower-cases to 'exit': break
ExitKeyword ==
    /\ pc = "prompt" /\ ~eof
    /\ \E line \in ExitLines : user_id_input' = line
    /\ pc' = "done"
    /\ event' = "line"
    /\ target_user_id' = <<>>
    /\ invoked' = FALSE
    /\ report' = "None"
    /\ similarity_computed' = FALSE
    /\ similar_users' = <<>>
    /\ top_10_recommendations' = <<>>
    /\ UNCHANGED <<user_item_matrix, build, eof>>

\* int(user_id_input) raises ValueError: the message, then the next prompt
InvalidInput ==
    /\ pc = "prompt" /\ ~eof
    /\ \E line \in ValueErrorLines : user_id_input' = line
    /\ event' = "line"
    /\ target_user_id' = <<>>
    /\ invoked' = FALSE
    /\ report' = "InvalidInput"
    /\ similarity_computed' = FALSE
    /\ similar_users' = <<>>
    /\ top_10_recommendations' = <<>>
    /\ UNCHANGED <<user_item_matrix, build, pc, eof>>

\* what one call leaves behind
Returned(id, out) ==
    /\ target_user_id' = <<id>>
    /\ report' = out.report
    /\ similarity_computed' = out.similarity_computed
    /\ similar_users' = out.similar_users
    /\ top_10_recommendations' = out.top_10_recommendations

\* an integer: get_recommendations(target_user_id, ...), then the next prompt
Query ==
    /\ pc = "prompt" /\ ~eof
    /\ \E line \in IntegerLines :
        /\ user_id_input' = line
        /\ Returned(ParseInt(line).value,
                    get_recommendations(ParseInt(line).value, user_item_matrix))
    /\ event' = "line"
    /\ invoked' = TRUE
    /\ UNCHANGED <<user_item_matrix, build, pc, eof>>

\* input() raises EOFError, which "except Exception" catches: the message
\* is printed and the loop goes on.  A pipe or file that has ended raises
\* it at every later input(); a terminal may give lines again.
EndOfInput ==
    /\ pc = "prompt"
    /\ \E ended \in BOOLEAN : eof' = (eof \/ ended)
    /\ event' = "eof"
    /\ user_id_input' = <<>>
    /\ target_user_id' = <<>>
    /\ invoked' = FALSE
    /\ report' = "UnexpectedError"
    /\ similarity_computed' = FALSE
    /\ similar_users' = <<>>
    /\ top_10_recommendations' = <<>>
    /\ UNCHANGED <<user_item_matrix, build, pc>>

Next ==
    \/ LoadFailed \/ LoadAndBuild
    \/ ExitKeyword \/ InvalidInput \/ Query \/ EndOfInput

Spec == Init /\ [][Next]_vars

----------------------------------------------------------------------------
(* Properties *)

Target == target_user_id[1]

Queried == event = "line" /\ invoked

Present(id) ==
    \E i \in 1..Len(user_item_matrix.index) : user_item_matrix.index[i] = id

Cell(u, t) == user_item_matrix.data[u][t]

OtherUsers(id) == Range(user_item_matrix.index) \ {id}

ZeroCells(id) == {t \in Range(user_item_matrix.columns) : Cell(id, t) = 0}

Selected == {similar_users[i].label : i \in 1..Len(similar_users)}

PositionIn(s, x) == CHOOSE i \in 1..Len(s) : s[i] = x

\* C1: for a user id that is a row of the matrix, get_recommendations
\* outputs at most 10 entries, each a title whose cell in the target's row
\* is 0.
C1_AtMostTenUnrated ==
    (Queried /\ Present(Target)) =>
        /\ Len(top_10_recommendations) <= 10
        /\ \A i \in 1..Len(top_10_recommendations) :
              /\ top_10_recommendations[i].title \in Range(user_item_matrix.columns)
              /\ Cell(Target, top_10_recommendations[i].title) = 0

\* the target has rated a movie and has more than 10 unrated ones: the list
\* is cut at 10
C1_Witness ==
    /\ Queried /\ Present(Target)
    /\ Len(top_10_recommendations) = 10
    /\ Cardinality(ZeroCells(Target)) > 10
    /\ \E t \in Range(user_item_matrix.columns) : Cell(Target, t) > 0

\* C2: on the example matrix, the output for user 1 lists B before C.
C2_ExampleRanksBAboveC ==
    (Queried /\ user_item_matrix = ExampleMatrix /\ target_user_id = <<1>>) =>
        \E i, j \in 1..Len(top_10_recommendations) :
            /\ i < j
            /\ top_10_recommendations[i].title = "B"
            /\ top_10_recommendations[j].title = "C"

C_IsExitKeyword(line) ==
    /\ Len(line) = 4
    /\ line[1] \in {101, 69} /\ line[2] \in {120, 88}
    /\ line[3] \in {105, 73} /\ line[4] \in {116, 84}

\* C3: after the exit keyword in any letter case, and after end-of-input,
\* the loop has been left (no further prompt).  The files were found: the
\* loop was entered.
C3_LoopLeftOnExitOrEof ==
    (event = "eof" \/ (event = "line" /\ C_IsExitKeyword(user_id_input))) =>
        pc = "done"

AllOthersZero(id) ==
    \A u \in OtherUsers(id) : \A t \in Range(user_item_matrix.columns) :
        Cell(u, t) = 0

\* C4 as stated: the target is present and every other user's row is all
\* zero: no error and no recommendation entry.
C4_EmptyWhenOthersAllZero ==
    (Queried /\ Present(Target) /\ AllOthersZero(Target)) =>
        /\ report # "UnexpectedError"
        /\ top_10_recommendations = <<>>

\* C4 amended: in that case no error is raised; with no other user at all
\* "no similar users" is reported and nothing is output, otherwise the
\* all-zero users are the neighbours and min(10, number of the target's 0
\* cells) entries are output, each with score 0.
C4_ZeroScoresWhenOthersAllZero ==
    (Queried /\ Present(Target) /\ AllOthersZero(Target)) =>
        /\ pc = "prompt"
        /\ IF OtherUsers(Target) = {}
           THEN report = "NoSimilarUsers" /\ top_10_recommendations = <<>>
           ELSE /\ report = "Recommendations"
                /\ Len(top_10_recommendations)
                       = Min(10, Cardinality(ZeroCells(Target)))
                /\ \A i \in 1..Len(top_10_recommendations) :
                      /\ top_10_recommendations[i].score.sum = 0
                      /\ top_10_recommendations[i].shown = 0

C4_Witness ==
    /\ Queried /\ Present(Target) /\ AllOthersZero(Target)
    /\ Cardinality(OtherUsers(Target)) >= 2
    /\ \E t \in Range(user_item_matrix.columns) : Cell(Target, t) > 0
    /\ Len(top_10_recommendations) >= 1

\* C5: for an integer that is no row of the matrix, UserNotFound is
\* reported and nothing else happens: no similarity, no neighbour list, no
\* recommendation entry, no exception, and the loop is back at the prompt.
C5_UserNotFound ==
    (event = "line" /\ target_user_id # <<>> /\ ~Present(Target)) =>
        /\ invoked
        /\ report = "UserNotFound"
        /\ ~similarity_computed
        /\ similar_users = <<>>
        /\ top_10_recommendations = <<>>
        /\ pc = "prompt"

C5_Witness ==
    /\ event = "line" /\ target_user_id = <<0 - 1>> /\ report = "UserNotFound"
    /\ Len(user_item_matrix.index) >= 2
    /\ pc = "prompt"

\* optional whitespace, an optional sign, digits (the ten code points
\* from one of the given zeros) with single underscores allowed between
\* them, optional whitespace
C_IsDecimalText(line, zeros) ==
    \E a, b \in 1..Len(line) :
        /\ a <= b
        /\ \A i \in 1..Len(line) : (i < a \/ i > b) => line[i] \in Whitespace
        /\ \E d \in {a, a + 1} :
              /\ d <= b
              /\ d = a + 1 => line[a] \in {43, 45}
              /\ \A i \in {d, b} : \E z \in zeros : line[i] \in z..(z + 9)
              /\ \A i \in d..b :
                    \/ \E z \in zeros : line[i] \in z..(z + 9)
                    \/ line[i] = 95 /\ line[i - 1] # 95

\* C6 as stated: a line that is neither an integer literal (sign, digits
\* 0-9, underscores between digits, whitespace around) nor the exit keyword
\* gets InvalidInput, no call of get_recommendations, and the prompt again,
\* whatever was read before.
C6_InvalidUnlessIntegerLiteral ==
    (event = "line" /\ ~C_IsExitKeyword(user_id_input)
                    /\ ~C_IsDecimalText(user_id_input, {48})) =>
        /\ report = "InvalidInput"
        /\ ~invoked
        /\ target_user_id = <<>>
        /\ pc = "prompt"

\* C6 amended: the same for a line that is not the exit keyword and is no
\* decimal integer in any Unicode decimal digits: int() also reads digits
\* other than 0-9, and such a line is a query.
C6_InvalidUnlessDecimalDigits ==
    (event = "line" /\ ~C_IsExitKeyword(user_id_input)
                    /\ ~C_IsDecimalText(user_id_input, DigitZeros)) =>
        /\ report = "InvalidInput"
        /\ ~invoked
        /\ target_user_id = <<>>
        /\ pc = "prompt"

\* a digit with a trailing underscore, read after an earlier query
C6_Witness ==
    /\ event = "line" /\ report = "InvalidInput" /\ pc = "prompt"
    /\ user_id_input = <<49, 95>>

\* C7: the scores of the output entries are non-increasing along the list.
C7_ScoresNonIncreasing ==
    \A i \in 1..(Len(top_10_recommendations) - 1) :
        LET a == top_10_recommendations[i]
            b == top_10_recommendations[i + 1]
        IN  /\ a.score.sum * b.score.n >= b.score.sum * a.score.n
            /\ a.shown >= b.shown

C7_Witness ==
    /\ Queried
    /\ Len(top_10_recommendations) >= 3
    /\ top_10_recommendations[1].shown > top_10_recommendations[2].shown
    /\ top_10_recommendations[2].shown
           > top_10_recommendations[Len(top_10_recommendations)].shown

SimilarityTo(id, u) == CosineSimilarity(user_item_matrix, u, id)

\* C8: the neighbour list never holds the target, has exactly
\* min(10, N-1) other users, none of lower similarity than a user left
\* out, and is in descending similarity.
C8_Neighbours ==
    (Queried /\ Present(Target)) =>
        /\ Target \notin Selected
        /\ Selected \subseteq OtherUsers(Target)
        /\ Cardinality(Selected) = Len(similar_users)
        /\ Len(similar_users) = Min(10, Len(user_item_matrix.index) - 1)
        /\ \A i \in 1..Len(similar_users) :
              similar_users[i].value
                  = SimilarityTo(Target, similar_users[i].label)
        /\ \A u \in Selected : \A o \in OtherUsers(Target) \ Selected :
              ~SimGreater(SimilarityTo(Target, o), SimilarityTo(Target, u))
        /\ \A i \in 1..(Len(similar_users) - 1) :
              ~SimGreater(similar_users[i + 1].value, similar_users[i].value)

\* more than 10 other users, one left out that is strictly less similar
\* than every neighbour
C8_Witness ==
    /\ Queried /\ Present(Target)
    /\ Len(user_item_matrix.index) - 1 > 10
    /\ Len(similar_users) = 10
    /\ SimGreater(similar_users[1].value, similar_users[10].value)
    /\ \E o \in OtherUsers(Target) \ Selected :
          SimGreater(similar_users[10].value, SimilarityTo(Target, o))

SameOutput ==
    /\ report' = report
    /\ similar_users' = similar_users
    /\ top_10_recommendations' = top_10_recommendations

\* similarities that are equal as doubles too: both 0, or of equal rows
SameSimilarity(x, y) ==
    \/ x.value.num = 0 /\ y.value.num = 0
    \/ user_item_matrix.data[x.label] = user_item_matrix.data[y.label]

NeighbourTiesInRowOrder ==
    \A i, j \in 1..Len(similar_users) :
        (i < j /\ SameSimilarity(similar_users[i], similar_users[j])) =>
            PositionIn(user_item_matrix.index, similar_users[i].label)
                < PositionIn(user_item_matrix.index, similar_users[j].label)

MovieTiesInColumnOrder ==
    \A i, j \in 1..Len(top_10_recommendations) :
        (i < j /\ top_10_recommendations[i].score
                      = top_10_recommendations[j].score) =>
            PositionIn(user_item_matrix.columns, top_10_recommendations[i].title)
                < PositionIn(user_item_matrix.columns,
                             top_10_recommendations[j].title)

\* C9 as stated, on the build that keeps equal keys of a short series in
\* index order (current pandas over numpy's scalar quicksort; the other
\* builds keep them on no series): a second run for the same id gives the
\* same output, and equal similarities come out in row order, equal scores
\* in column order.
C9_SameOutputStableTies ==
    [][(build.pandas = "nargsort" /\ build.kernel = "scalar") =>
          /\ (Queried /\ Queried' /\ target_user_id' = target_user_id)
                 => SameOutput
          /\ Queried' => (NeighbourTiesInRowOrder' /\ MovieTiesInColumnOrder')]_vars

\* C10: each entry's score is the plain mean of the movie's cells over the
\* selected neighbours, zeros included: their sum over their number.
C10_UnweightedMean ==
    \A i \in 1..Len(top_10_recommendations) :
        /\ top_10_recommendations[i].score.n = Len(similar_users)
        /\ top_10_recommendations[i].score.sum
               = SumSeq([j \in 1..Len(similar_users) |->
                    Cell(similar_users[j].label, top_10_recommendations[i].title)])

\* neighbours of different similarity, one of them without a rating for the
\* movie, and a user left out who rated it
C10_Witness ==
    /\ Queried /\ report = "Recommendations"
    /\ SimGreater(similar_users[1].value, similar_users[Len(similar_users)].value)
    /\ \E i \in 1..Len(top_10_recommendations) :
          LET t == top_10_recommendations[i].title
          IN  /\ top_10_recommendations[i].score.sum > 0
              /\ \E u \in Selected : Cell(u, t) = 0
              /\ \E o \in OtherUsers(Target) \ Selected : Cell(o, t) > 0

====
